---- MODULE Spec2Model ----
(***************************************************************************)
(* AccountPermissions (app/components/Views/AccountPermissions) and         *)
(* InAppBrowserView (app/components/Views/InAppBrowser): two unrelated      *)
(* React function components, each as a state machine.  Spec is the        *)
(* behaviour of AccountPermissions, BrowserSpec that of InAppBrowserView.  *)
(*                                                                         *)
(* Hook state holds the latest queued value of every useState cell.  A     *)
(* render takes a snapshot `r` of the values the effects close over and    *)
(* schedules the passive effects whose dependencies changed.  Scheduled    *)
(* effects are flushed in declaration order, always before the next        *)
(* render; an event (a callback of a child, a store update, a promise      *)
(* settling) may arrive between a render and the flush of its effects.     *)
(***************************************************************************)
EXTENDS Integers, Sequences, FiniteSets, TLC

\* ------------------------------------------------------------------ bounds
MaxAccounts == 2
MaxPermitted == 1
MaxSelected == 1
MaxCreating == 1
MaxProbing == 2

\* Ghost counters count 0, 1, 2 = more than once.
Saturating(n) == IF n < 2 THEN n + 1 ELSE 2

\* ---------------------------------------------------------------- universe
\* Account addresses as the wallet stores them (checksum case or lower case).
Addresses == {"0xAa", "0xbb"}
\* Chain ids handed over by the network selector.
NetworkIds == {"0x1"}

Undefined == -1

\* A route param the caller left out.
NotGiven == "undefined"

None == "None"
USER_INTENT ==
    {"None", "Confirm", "Create", "CreateMultiple", "Cancel", "Import", "ConnectHW"}

AccountPermissionsScreens ==
    {"Connected", "ConnectMoreAccounts", "EditAccountsPermissions",
     "ConnectMoreNetworks", "Revoke", "PermissionsSummary"}

\* The text the user may leave in the URL field.
Urls == {"https://home.metamask.io/", "https://metamask.io/", ""}

VARIABLES
    isRenderedAsBottomSheet,     \* route param
    initialScreen,               \* route param, Undefined when the caller passes none
    internalAccounts,            \* store: the wallet's account list
    permittedAccountsByHostname, \* store: permitted addresses of the origin
    isLoading,                   \* useState
    selectedAddresses,           \* useState
    permissionsScreen,           \* useState
    userIntent,                  \* useState
    previousPermittedAccounts,   \* useRef
    previousIdentitiesListSize,  \* useRef
    r,                           \* values captured by the last render
    selectedTouched,             \* setSelectedAddresses stored a new array since the last render
    dirty,                       \* a state or store change awaits its render
    pending,                     \* passive effects scheduled by the last render
    flushing,                    \* the flush of the scheduled effects has begun
    creating,                    \* addNewAccount promises not yet settled
    settled,                     \* outcome of a promise whose continuation is due
    out,                         \* calls made to collaborators by the last step
    mounted,                     \* the first auto-dismiss effect run is over
    fired,                       \* times the auto-dismiss branch ran (0, 1, more)
    reobserved,                  \* the effect saw the list empty again after it had fired
    owed,                        \* intents set and not yet met by an effect run (0, 1, more)
    accountsUpdated,             \* the account list changed since the refresh effect last ran
    \* InAppBrowserView
    browserPlaceholderText,      \* useState
    shouldOpenBrowser,           \* useState
    url,                         \* useState
    probing,                     \* isAvailable() promises not yet settled
    outcomes,                    \* the outcomes the settled probes had
    probesIssued                 \* times isAvailable() was called (0, 1, more)

vars ==
    <<browserPlaceholderText, shouldOpenBrowser, url, probing, outcomes,
      probesIssued, initialScreen,
      isRenderedAsBottomSheet, internalAccounts, permittedAccountsByHostname,
      isLoading, selectedAddresses, permissionsScreen, userIntent,
      previousPermittedAccounts, previousIdentitiesListSize, r, selectedTouched,
      dirty, pending, flushing, creating, settled, out, mounted, fired,
      reobserved, owed, accountsUpdated>>

\* ----------------------------------------------------------------- helpers
Range(s) == {s[i] : i \in DOMAIN s}

DistinctSeqs(S, n) ==
    {s \in UNION {[1..k -> S] : k \in 0..n} :
        \A i, j \in DOMAIN s : i # j => s[i] # s[j]}

\* The wallet always holds at least one account.
AccountLists == DistinctSeqs(Addresses, MaxAccounts) \ {<<>>}

PermittedLists == DistinctSeqs({"0xaa", "0xbb"}, MaxPermitted)

toLowerCase(s) ==
    CASE s = "0xAa" -> "0xaa"
      [] OTHER -> s

includes(list, x) == \E i \in DOMAIN list : list[i] = x

Call(op, arg) == [op |-> op, arg |-> arg]

Ops(calls) == {calls[i].op : i \in DOMAIN calls}

CountOp(calls, op) == Cardinality({i \in DOMAIN calls : calls[i].op = op})

\* --------------------------------------------------------- hideSheet (119)
\* sheetRef.current is the BottomSheet only when the view is rendered inside one.
hideSheet ==
    <<Call("hideSheet", <<>>)>>
        \o (IF isRenderedAsBottomSheet
            THEN <<Call("onCloseBottomSheet", <<>>)>> ELSE <<>>)

\* ------------------------------------------------ auto dismiss (127 - 168)
shouldAutoDismissAnywhere(previous, permitted, asBottomSheet) ==
    /\ previous = Undefined
    /\ Len(permitted) = 0

shouldAutoDismiss(previous, permitted, asBottomSheet) ==
    /\ previous = Undefined
    /\ Len(permitted) = 0
    /\ asBottomSheet

autoDismissCalls ==
    hideSheet \o <<Call("showToast", <<"toast.disconnected">>)>>

latchedPermittedAccountsSkipped(previous, permitted) == previous

latchedPermittedAccounts(previous, permitted) == Len(permitted)

\* ------------------------------------- refresh selected addresses (171 - 185)
accountsAddressList(accounts) ==
    [i \in DOMAIN accounts |-> toLowerCase(accounts[i])]

listSizeChangedAlways(previousSize, addressList) == TRUE

listSizeChanged(previousSize, addressList) == previousSize # Len(addressList)

updatedSelectedAddresses(selected, addressList) ==
    SelectSeq(selected, LAMBDA address : includes(addressList, toLowerCase(address)))

\* ------------------------------------ accountsFilteredByPermissions (187 - 206)
RECURSIVE forEachAccount(_, _, _)
forEachAccount(accounts, permitted, accountsByPermittedStatus) ==
    IF accounts = <<>> THEN accountsByPermittedStatus
    ELSE LET account == Head(accounts)
             lowercasedAccount == toLowerCase(account)
         IN forEachAccount(
                Tail(accounts), permitted,
                IF includes(permitted, lowercasedAccount)
                THEN [accountsByPermittedStatus EXCEPT !.permitted = Append(@, account)]
                ELSE [accountsByPermittedStatus EXCEPT !.unpermitted = Append(@, account)])

accountsFilteredByPermissionsCaseSensitive(accounts, permitted) ==
    [permitted |-> SelectSeq(accounts, LAMBDA a : includes(permitted, a)),
     unpermitted |-> SelectSeq(accounts, LAMBDA a : ~includes(permitted, a))]

accountsFilteredByPermissions(accounts, permitted) ==
    forEachAccount(accounts, permitted, [permitted |-> <<>>, unpermitted |-> <<>>])

\* ------------------------------------------- handleCreateAccount (208 - 227)
\* Up to the await: the flag is raised and the keyring is asked for an account.
handleCreateAccountCalls == <<Call("addNewAccount", <<>>)>>

\* After the await: the two analytics events, or the logged error.
createAccountSettledCalls(outcome) ==
    IF outcome = "fulfilled"
    THEN <<Call("trackEvent", <<"ACCOUNTS_ADDED_NEW_ACCOUNT">>),
           Call("trackEvent", <<"SWITCHED_ACCOUNT">>)>>
    ELSE <<Call("Logger.error", <<"Error while trying to add a new account.">>)>>

\* The finally block.
createAccountFinallySkipped(loading) == loading

createAccountFinally(loading) == FALSE

\* ------------------------------------------------- handleConnect (229 - 289)
handleConnectCallsToastFirst(selected, throws) ==
    <<Call("showToast", <<"toast.connected">>),
      Call("addPermittedAccounts", selected)>>
        \o (IF throws
            THEN <<Call("Logger.error", <<"Error while trying to connect to a dApp.">>)>>
            ELSE <<Call("trackEvent", <<"ADD_ACCOUNT_DAPP_PERMISSIONS">>)>>)

handleConnectCalls(selected, throws) ==
    <<Call("addPermittedAccounts", selected)>>
        \o (IF throws
            THEN <<Call("Logger.error", <<"Error while trying to connect to a dApp.">>)>>
            ELSE <<Call("showToast", <<"toast.connected">>),
                   Call("trackEvent", <<"ADD_ACCOUNT_DAPP_PERMISSIONS">>)>>)

handleConnectFinallyKept(loading) == loading

handleConnectFinally(loading) == FALSE

\* --------------------------------------------- handleUserActions (294 - 330)
handleUserActionsCalls(action, selected, throws) ==
    CASE action = "Confirm" -> handleConnectCalls(selected, throws) \o hideSheet
      [] action \in {"Create", "CreateMultiple"} -> handleCreateAccountCalls
      [] action = "Cancel" -> hideSheet
      [] action = "Import" ->
            <<Call("navigate", <<"ImportPrivateKeyView">>),
              Call("trackEvent", <<"ACCOUNTS_IMPORTED_NEW_ACCOUNT">>)>>
      [] action = "ConnectHW" ->
            <<Call("navigate", <<"ConnectQRHardwareFlow">>),
              Call("trackEvent", <<"CONNECT_HARDWARE_WALLET">>)>>
      [] OTHER -> <<>>

\* The intent the effect leaves behind (334).
consumedIntentKept(action) == action

consumedIntent(action) == None

\* ------------------------------------------------- route params (63 - 69)
\* The two ways the view is opened: as a bottom sheet with nothing but the
\* host passed, and full screen from the permissions manager (the screen
\* onBack returns to, 395), which passes both params.
RouteParams ==
    {[isRenderedAsBottomSheet |-> TRUE, initialScreen |-> NotGiven],
     [isRenderedAsBottomSheet |-> FALSE, initialScreen |-> "PermissionsSummary"]}

screenOrDefaultIgnored(param) == "Connected"

screenOrDefault(param) == IF param = NotGiven THEN "Connected" ELSE param

\* ------------------------------------------------------- InAppBrowserView
\* The options bag (18 - 49), one entry per property.
opts ==
    <<"dismissButtonStyle: cancel", "preferredBarTintColor: #453AA4",
      "preferredControlTintColor: white", "readerMode: false", "animated: true",
      "modalPresentationStyle: fullScreen", "modalTransitionStyle: coverVertical",
      "modalEnabled: true", "enableBarCollapsing: false", "showTitle: true",
      "toolbarColor: #6200EE", "secondaryToolbarColor: black",
      "navigationBarColor: black", "navigationBarDividerColor: white",
      "enableUrlBarHiding: true", "enableDefaultShare: true",
      "forceCloseOnRedirection: false",
      "animations.startEnter: slide_in_right",
      "animations.startExit: slide_out_left",
      "animations.endEnter: slide_in_left",
      "animations.endExit: slide_out_right",
      "headers.my-custom-header: my custom header value">>

\* What isAvailable() can come to: its promise is fulfilled with true, is
\* fulfilled with false, or is rejected.
ProbeOutcomes == {"available", "unavailable", "failed"}

\* The hook state the component function starts from (7 - 9).
InAppBrowserHooks ==
    /\ browserPlaceholderText = "Checking browser availability"
    /\ shouldOpenBrowser = FALSE
    /\ url = "https://home.metamask.io/"

\* handleOpenBrowserButtonPress (51)
openBrowserCallsFixedUrl(currentUrl) ==
    <<Call("InAppBrowser.open", <<"https://home.metamask.io/">> \o opts)>>

openBrowserCalls(currentUrl) ==
    <<Call("InAppBrowser.open", <<currentUrl>> \o opts)>>

\* The two handlers given to then (11 - 16): the label and the flag each
\* leaves behind.  The fulfilment handler takes no argument.
labelAfterProbe(outcome, label) ==
    IF outcome \in {"available", "unavailable"}
    THEN "Browser available" ELSE "Browser not Available"

enabledAfterProbeAlways(outcome, enabled) == TRUE

enabledAfterProbe(outcome, enabled) ==
    IF outcome \in {"available", "unavailable"} THEN TRUE ELSE enabled

\* -------------------------------------------------------------------- Init
TypeOK ==
    /\ isRenderedAsBottomSheet \in BOOLEAN
    /\ isLoading \in BOOLEAN
    /\ userIntent \in USER_INTENT
    /\ permissionsScreen \in AccountPermissionsScreens
    /\ previousPermittedAccounts \in {Undefined, 0}
    /\ previousIdentitiesListSize \in {Undefined} \cup (0..MaxAccounts)
    /\ pending \subseteq {"dismiss", "refresh", "intent"}
    /\ creating \in 0..MaxCreating
    /\ settled \in {"none", "fulfilled", "rejected"}
    /\ fired \in 0..2
    /\ reobserved \in BOOLEAN
    /\ owed \in 0..2
    /\ probing \in 0..MaxProbing
    /\ probesIssued \in 0..2
    /\ outcomes \subseteq ProbeOutcomes
    /\ url \in Urls
    /\ shouldOpenBrowser \in BOOLEAN

\* AccountPermissions is mounted with its route params; no InAppBrowserView.
Init ==
    /\ InAppBrowserHooks
    /\ probing = 0
    /\ outcomes = {}
    /\ probesIssued = 0
    /\ \E params \in RouteParams :
          /\ isRenderedAsBottomSheet = params.isRenderedAsBottomSheet
          /\ initialScreen = params.initialScreen
    /\ internalAccounts \in AccountLists
    /\ permittedAccountsByHostname \in PermittedLists
    /\ isLoading = FALSE
    /\ selectedAddresses = <<>>
    /\ permissionsScreen = screenOrDefault(initialScreen)
    /\ userIntent = None
    /\ previousPermittedAccounts = Undefined
    /\ previousIdentitiesListSize = Undefined
    /\ r = [intent |-> userIntent, selected |-> selectedAddresses,
            accounts |-> internalAccounts, permitted |-> permittedAccountsByHostname]
    /\ selectedTouched = FALSE
    /\ dirty = FALSE
    /\ pending = {"dismiss", "refresh", "intent"}
    /\ flushing = FALSE
    /\ creating = 0
    /\ settled = "none"
    /\ out = <<>>
    /\ mounted = FALSE
    /\ fired = 0
    /\ reobserved = FALSE
    /\ owed = 0
    /\ accountsUpdated = FALSE

\* No render is due, no flush is under way, no continuation is due: the
\* event loop is free to deliver an event.
Idle == ~dirty /\ ~flushing /\ settled = "none"

ghosts == <<mounted, fired, reobserved, owed, accountsUpdated>>
route == <<isRenderedAsBottomSheet, initialScreen>>
browser ==
    <<browserPlaceholderText, shouldOpenBrowser, url, probing, outcomes,
      probesIssued>>
refs == <<previousPermittedAccounts, previousIdentitiesListSize>>
store == <<internalAccounts, permittedAccountsByHostname>>
scheduling == <<r, pending, flushing>>
promises == <<creating, settled>>

\* ------------------------------------------------------------------ render
\* The component function runs: the closures of the effects capture the
\* current values, and an effect is scheduled when one of its dependencies
\* differs from the previous render's.
Render ==
    /\ dirty
    /\ pending = {}
    /\ settled = "none"
    /\ r' = [intent |-> userIntent, selected |-> selectedAddresses,
             accounts |-> internalAccounts,
             permitted |-> permittedAccountsByHostname]
    /\ pending' =
            (IF r.permitted # permittedAccountsByHostname THEN {"dismiss"} ELSE {})
            \cup (IF r.accounts # internalAccounts \/ selectedTouched
                  THEN {"refresh"} ELSE {})
            \cup (IF \/ r.intent # userIntent
                     \/ r.accounts # internalAccounts
                     \/ selectedTouched
                  THEN {"intent"} ELSE {})
    /\ accountsUpdated' = (accountsUpdated \/ r.accounts # internalAccounts)
    /\ dirty' = FALSE
    /\ selectedTouched' = FALSE
    /\ flushing' = FALSE
    /\ out' = <<>>
    /\ UNCHANGED <<browser, route, store, isLoading, selectedAddresses,
                   permissionsScreen, userIntent, refs, promises, mounted,
                   fired, reobserved, owed>>

\* ----------------------------------------------------------------- effects
\* useEffect 127 - 168
AutoDismissEffect ==
    /\ "dismiss" \in pending
    /\ settled = "none"
    /\ pending' = pending \ {"dismiss"}
    /\ flushing' = (pending' # {})
    /\ mounted' = TRUE
    /\ reobserved' = (reobserved \/ (Len(r.permitted) = 0 /\ fired > 0))
    /\ IF shouldAutoDismiss(previousPermittedAccounts, r.permitted,
                            isRenderedAsBottomSheet)
       THEN /\ out' = autoDismissCalls
            /\ previousPermittedAccounts' =
                    latchedPermittedAccounts(previousPermittedAccounts, r.permitted)
            /\ fired' = Saturating(fired)
       ELSE /\ out' = <<>>
            /\ UNCHANGED <<previousPermittedAccounts, fired>>
    /\ UNCHANGED <<browser, route, store, isLoading, selectedAddresses,
                   permissionsScreen, userIntent, previousIdentitiesListSize, r,
                   selectedTouched, dirty, promises, owed, accountsUpdated>>

\* useEffect 171 - 185
RefreshSelectedAddressesEffect ==
    /\ "refresh" \in pending
    /\ "dismiss" \notin pending
    /\ settled = "none"
    /\ pending' = pending \ {"refresh"}
    /\ flushing' = (pending' # {})
    /\ accountsUpdated' = FALSE
    /\ out' = <<>>
    /\ LET addressList == accountsAddressList(r.accounts)
       IN IF listSizeChanged(previousIdentitiesListSize, addressList)
          THEN /\ selectedAddresses' =
                        updatedSelectedAddresses(r.selected, addressList)
               /\ selectedTouched' = TRUE
               /\ dirty' = TRUE
               /\ previousIdentitiesListSize' = Len(addressList)
          ELSE UNCHANGED <<selectedAddresses, selectedTouched, dirty,
                           previousIdentitiesListSize>>
    /\ UNCHANGED <<browser, route, store, isLoading, permissionsScreen,
                   userIntent, previousPermittedAccounts, r, promises, mounted,
                   fired, reobserved, owed>>

\* useEffect 291 - 344
UserIntentEffect ==
    /\ "intent" \in pending
    /\ "dismiss" \notin pending
    /\ "refresh" \notin pending
    /\ settled = "none"
    /\ pending' = pending \ {"intent"}
    /\ flushing' = (pending' # {})
    /\ IF r.intent = None
       THEN /\ out' = <<>>
            /\ UNCHANGED <<isLoading, userIntent, creating, dirty, owed>>
       ELSE \E throws \in BOOLEAN :
            /\ throws => r.intent = "Confirm"
            /\ out' = handleUserActionsCalls(r.intent, r.selected, throws)
            /\ isLoading' =
                    (CASE r.intent = "Confirm" -> handleConnectFinally(isLoading)
                       [] r.intent \in {"Create", "CreateMultiple"} -> TRUE
                       [] OTHER -> isLoading)
            /\ creating' =
                    (IF r.intent \in {"Create", "CreateMultiple"}
                     THEN creating + 1 ELSE creating)
            /\ userIntent' = consumedIntent(r.intent)
            /\ owed' = 0
            /\ dirty' = (\/ dirty
                         \/ userIntent' # userIntent
                         \/ isLoading' # isLoading)
    /\ UNCHANGED <<browser, route, store, selectedAddresses,
                   permissionsScreen, refs, r, selectedTouched, settled, mounted,
                   fired, reobserved, accountsUpdated>>

\* ------------------------------------------------- events: child callbacks
\* onUserAction = setUserIntent (390, 409, 442, 470)
onUserAction(intent) ==
    /\ Idle
    /\ permissionsScreen \in {"PermissionsSummary", "EditAccountsPermissions",
                              "ConnectMoreAccounts", "ConnectMoreNetworks"}
    /\ intent \in {"Create", "CreateMultiple"} => creating < MaxCreating
    /\ userIntent' = intent
    /\ dirty' = (userIntent' # userIntent)
    /\ owed' = Saturating(owed)
    /\ out' = <<>>
    /\ UNCHANGED <<browser, route, store, isLoading, selectedAddresses,
                   permissionsScreen, refs, scheduling, selectedTouched,
                   promises, mounted, fired, reobserved, accountsUpdated>>

setSelectedAddresses(addresses) ==
    /\ selectedAddresses' = addresses
    /\ selectedTouched' = TRUE
    /\ dirty' = TRUE
    /\ out' = <<>>
    /\ UNCHANGED <<browser, route, store, isLoading, permissionsScreen,
                   userIntent, refs, scheduling, promises, ghosts>>

\* AccountConnectMultiSelector.onSelectAddress (407, 440): the user picks
\* among the accounts the selector was given, the unpermitted ones.
onSelectAddress ==
    /\ Idle
    /\ permissionsScreen \in {"EditAccountsPermissions", "ConnectMoreAccounts"}
    /\ \E addresses \in DistinctSeqs(
              Range(accountsFilteredByPermissions(
                        internalAccounts, permittedAccountsByHostname).unpermitted),
              MaxSelected) :
          setSelectedAddresses(addresses)

\* NetworkConnectMultiSelector.onSelectNetworkIds (468)
onSelectNetworkIds ==
    /\ Idle
    /\ permissionsScreen = "ConnectMoreNetworks"
    /\ \E ids \in DistinctSeqs(NetworkIds, MaxSelected) :
          setSelectedAddresses(ids)

\* AccountPermissionsConnected.onSetSelectedAddresses (350): the child is
\* given the permitted accounts.
onSetSelectedAddresses ==
    /\ Idle
    /\ permissionsScreen = "Connected"
    /\ \E addresses \in DistinctSeqs(
              Range(accountsFilteredByPermissions(
                        internalAccounts, permittedAccountsByHostname).permitted),
              MaxSelected) :
          setSelectedAddresses(addresses)

\* AccountPermissionsConnected.onDismissSheet (352)
onDismissSheet ==
    /\ Idle
    /\ permissionsScreen = "Connected"
    /\ out' = hideSheet
    /\ UNCHANGED <<browser, route, store, isLoading, selectedAddresses,
                   permissionsScreen, userIntent, refs, scheduling,
                   selectedTouched, dirty, promises, ghosts>>

setPermissionsScreen(screen) ==
    /\ permissionsScreen' = screen
    /\ dirty' = (permissionsScreen' # permissionsScreen)
    /\ out' = <<>>
    /\ UNCHANGED <<browser, route, store, isLoading, selectedAddresses,
                   userIntent, refs, scheduling, selectedTouched, promises,
                   ghosts>>

\* onSetPermissionsScreen (351, 485)
onSetPermissionsScreen ==
    /\ Idle
    /\ permissionsScreen \in {"Connected", "Revoke"}
    /\ \E screen \in AccountPermissionsScreens : setPermissionsScreen(screen)

\* onEdit (386)
onEdit ==
    /\ Idle
    /\ permissionsScreen = "PermissionsSummary"
    /\ setPermissionsScreen("EditAccountsPermissions")

\* onEditNetworks (388)
onEditNetworks ==
    /\ Idle
    /\ permissionsScreen = "PermissionsSummary"
    /\ setPermissionsScreen("ConnectMoreNetworks")

\* onBack (392, 415, 448, 473)
onBackIgnoringSheet ==
    /\ Idle
    /\ CASE permissionsScreen \in {"PermissionsSummary", "ConnectMoreAccounts"} ->
              setPermissionsScreen("Connected")
         [] permissionsScreen \in {"EditAccountsPermissions", "ConnectMoreNetworks"} ->
              setPermissionsScreen("PermissionsSummary")
         [] OTHER -> FALSE

onBack ==
    /\ Idle
    /\ CASE permissionsScreen = "PermissionsSummary" ->
              IF isRenderedAsBottomSheet
              THEN setPermissionsScreen("Connected")
              ELSE /\ out' = <<Call("navigate", <<"PermissionsManager">>)>>
                   /\ UNCHANGED <<browser, route, store, isLoading,
                                  selectedAddresses, permissionsScreen,
                                  userIntent, refs, scheduling, selectedTouched,
                                  dirty, promises, ghosts>>
         [] permissionsScreen \in {"EditAccountsPermissions", "ConnectMoreNetworks"} ->
              setPermissionsScreen("PermissionsSummary")
         [] permissionsScreen = "ConnectMoreAccounts" ->
              setPermissionsScreen("Connected")
         [] OTHER -> FALSE

\* ----------------------------------------------------- events: the stores
\* selectInternalAccounts (114): accounts are added, removed, or both.
AccountsChanged ==
    /\ Idle
    /\ \E accounts \in AccountLists :
          /\ accounts # internalAccounts
          /\ internalAccounts' = accounts
    /\ dirty' = TRUE
    /\ out' = <<>>
    /\ UNCHANGED <<browser, route, permittedAccountsByHostname,
                   isLoading, selectedAddresses, permissionsScreen, userIntent,
                   refs, scheduling, selectedTouched, promises, ghosts>>

\* selectPermissionControllerState (100): the origin's permissions change.
PermittedAccountsChanged ==
    /\ Idle
    /\ \E permitted \in PermittedLists :
          /\ permitted # permittedAccountsByHostname
          /\ permittedAccountsByHostname' = permitted
    /\ dirty' = TRUE
    /\ out' = <<>>
    /\ UNCHANGED <<browser, route, internalAccounts, isLoading,
                   selectedAddresses, permissionsScreen, userIntent, refs,
                   scheduling, selectedTouched, promises, ghosts>>

\* ------------------------------------------- events: addNewAccount settles
AddNewAccountSettles ==
    /\ Idle
    /\ creating > 0
    /\ creating' = creating - 1
    /\ settled' \in {"fulfilled", "rejected"}
    /\ out' = <<>>
    /\ UNCHANGED <<browser, route, store, isLoading, selectedAddresses,
                   permissionsScreen, userIntent, refs, scheduling,
                   selectedTouched, dirty, ghosts>>

\* handleCreateAccount after the await (214 - 223)
HandleCreateAccountResumes ==
    /\ settled # "none"
    /\ out' = createAccountSettledCalls(settled)
    /\ isLoading' = createAccountFinally(isLoading)
    /\ dirty' = (dirty \/ isLoading' # isLoading)
    /\ settled' = "none"
    /\ UNCHANGED <<browser, route, store, selectedAddresses,
                   permissionsScreen, userIntent, refs, scheduling,
                   selectedTouched, creating, ghosts>>

\* -------------------------------------------------------------------- Next
Next ==
    \/ Render
    \/ AutoDismissEffect
    \/ RefreshSelectedAddressesEffect
    \/ UserIntentEffect
    \/ \E intent \in USER_INTENT \ {None} : onUserAction(intent)
    \/ onSelectAddress
    \/ onSelectNetworkIds
    \/ onSetSelectedAddresses
    \/ onDismissSheet
    \/ onSetPermissionsScreen
    \/ onEdit
    \/ onEditNetworks
    \/ onBack
    \/ AccountsChanged
    \/ PermittedAccountsChanged
    \/ AddNewAccountSettles
    \/ HandleCreateAccountResumes

Spec == Init /\ [][Next]_vars

\* ======================================================= InAppBrowserView
accountPermissions ==
    <<route, store, isLoading, selectedAddresses, permissionsScreen,
      userIntent, refs, scheduling, selectedTouched, promises, ghosts>>

\* No AccountPermissions is mounted.
AccountPermissionsUnmounted ==
    /\ isRenderedAsBottomSheet = TRUE
    /\ initialScreen = NotGiven
    /\ internalAccounts = <<>>
    /\ permittedAccountsByHostname = <<>>
    /\ isLoading = FALSE
    /\ selectedAddresses = <<>>
    /\ permissionsScreen = "Connected"
    /\ userIntent = None
    /\ previousPermittedAccounts = Undefined
    /\ previousIdentitiesListSize = Undefined
    /\ r = [intent |-> None, selected |-> <<>>, accounts |-> <<>>,
            permitted |-> <<>>]
    /\ selectedTouched = FALSE
    /\ pending = {}
    /\ flushing = FALSE
    /\ creating = 0
    /\ settled = "none"
    /\ mounted = FALSE
    /\ fired = 0
    /\ reobserved = FALSE
    /\ owed = 0
    /\ accountsUpdated = FALSE

\* The hooks hold their initial values and the first call of the component
\* function (the mount) is due.
BrowserInit ==
    /\ AccountPermissionsUnmounted
    /\ InAppBrowserHooks
    /\ probing = 0
    /\ outcomes = {}
    /\ probesIssued = 0
    /\ dirty = TRUE
    /\ out = <<>>

\* The component function runs (5 - 66): every run calls isAvailable() and
\* attaches the two handlers (11 - 16).
BrowserRender ==
    /\ dirty
    /\ dirty' = FALSE
    /\ probing' = probing + 1
    /\ probesIssued' = Saturating(probesIssued)
    /\ out' = <<Call("InAppBrowser.isAvailable", <<>>)>>
    /\ UNCHANGED <<accountPermissions, browserPlaceholderText,
                   shouldOpenBrowser, url, outcomes>>

\* A promise of isAvailable() settles and its handler runs (11 - 16).  A set
\* state that stores the value already held asks for no render.
ProbeSettles(outcome) ==
    /\ ~dirty
    /\ probing > 0
    /\ probing' = probing - 1
    /\ outcomes' = outcomes \cup {outcome}
    /\ browserPlaceholderText' = labelAfterProbe(outcome, browserPlaceholderText)
    /\ shouldOpenBrowser' = enabledAfterProbe(outcome, shouldOpenBrowser)
    /\ dirty' = (\/ browserPlaceholderText' # browserPlaceholderText
                 \/ shouldOpenBrowser' # shouldOpenBrowser)
    /\ out' = <<>>
    /\ UNCHANGED <<accountPermissions, url, probesIssued>>

\* TextInput.onChangeText = handleUrlChange = setUrl (53, 59)
handleUrlChange(text) ==
    /\ ~dirty
    /\ probing < MaxProbing
    /\ text # url
    /\ url' = text
    /\ dirty' = TRUE
    /\ out' = <<>>
    /\ UNCHANGED <<accountPermissions, browserPlaceholderText,
                   shouldOpenBrowser, probing, outcomes, probesIssued>>

\* Pressable.onPress = handleOpenBrowserButtonPress (51, 62); a disabled
\* Pressable delivers no press.
handleOpenBrowserButtonPress ==
    /\ ~dirty
    /\ shouldOpenBrowser
    /\ out' = openBrowserCalls(url)
    /\ UNCHANGED <<accountPermissions, browser, dirty>>

BrowserNext ==
    \/ BrowserRender
    \/ \E outcome \in ProbeOutcomes : ProbeSettles(outcome)
    \/ \E text \in Urls : handleUrlChange(text)
    \/ handleOpenBrowserButtonPress

BrowserSpec == BrowserInit /\ [][BrowserNext]_vars

\* ================================================================== claims
\* The step of each effect, and the effect run that acts on an intent.
AutoDismissStep == "dismiss" \in pending /\ "dismiss" \notin pending'
RefreshStep == "refresh" \in pending /\ "refresh" \notin pending'
UserIntentStep == "intent" \in pending /\ "intent" \notin pending'
Handling(intent) == UserIntentStep /\ r.intent = intent
Quiescent == ~dirty /\ pending = {} /\ settled = "none"

PrimaryCalls(calls) ==
    SelectSeq(calls, LAMBDA c :
        c.op \in {"addPermittedAccounts", "addNewAccount", "navigate"})

\* The one side effect that belongs to an intent, and none of another's.
Corresponding(intent, calls) ==
    CASE intent = "Confirm" ->
            /\ Len(PrimaryCalls(calls)) = 1
            /\ PrimaryCalls(calls)[1].op = "addPermittedAccounts"
      [] intent \in {"Create", "CreateMultiple"} ->
            PrimaryCalls(calls) = <<Call("addNewAccount", <<>>)>>
      [] intent = "Cancel" ->
            /\ PrimaryCalls(calls) = <<>>
            /\ CountOp(calls, "hideSheet") = 1
      [] intent = "Import" ->
            PrimaryCalls(calls) = <<Call("navigate", <<"ImportPrivateKeyView">>)>>
      [] intent = "ConnectHW" ->
            PrimaryCalls(calls) = <<Call("navigate", <<"ConnectQRHardwareFlow">>)>>
      [] OTHER -> FALSE

\* C1 (as stated): every intent that was set is acted on exactly once: each
\* effect run that acts finds exactly one outstanding set, performs its one
\* side effect and leaves the intent None.
C1_EverySetActedOnce ==
    [][\A intent \in USER_INTENT \ {None} :
          Handling(intent) =>
              /\ owed = 1
              /\ Corresponding(intent, out')
              /\ userIntent' = None]_vars

\* C1 (amended): each effect run that sees a non-None intent performs exactly
\* the one side effect of that intent and leaves the intent None; it always
\* answers at least one outstanding set (no intent is acted on twice), and
\* once nothing is scheduled no set is outstanding.  A set made while another
\* is still outstanding shares that one effect run.
C1_OneEffectPerRun ==
    /\ [][\A intent \in USER_INTENT \ {None} :
             Handling(intent) =>
                 /\ owed >= 1
                 /\ Corresponding(intent, out')
                 /\ userIntent' = None]_vars
    /\ [](Quiescent => (userIntent = None /\ owed = 0))

C1_Witness ==
    /\ owed = 0
    /\ userIntent = None
    /\ r.intent = "Import"
    /\ "intent" \notin pending
    /\ Corresponding("Import", out)

\* C2: when the refresh effect runs after an update of the account list, it
\* leaves no selected address (compared case-insensitively) that is absent
\* from the updated list.
C2_RefreshDropsAbsentAddresses ==
    [][(RefreshStep /\ accountsUpdated) =>
          \A i \in DOMAIN selectedAddresses' :
              selectedAddresses'[i] \in Addresses =>
                  includes(accountsAddressList(r.accounts),
                           toLowerCase(selectedAddresses'[i]))]_vars

\* C3: the auto-dismiss branch runs at most once per mount, however often
\* the effect sees the list empty; it runs whenever the effect sees the list
\* empty while rendered as a bottom sheet and it has not run before; it never
\* runs when not rendered as a bottom sheet.
C3_AutoDismissAtMostOnce ==
    /\ [](fired <= 1)
    /\ [](~isRenderedAsBottomSheet => fired = 0)
    /\ [][(AutoDismissStep /\ isRenderedAsBottomSheet
              /\ Len(r.permitted) = 0 /\ fired = 0)
           => (fired' = 1 /\ CountOp(out', "showToast") = 1)]_vars
    /\ [][(AutoDismissStep /\ fired' = fired) => out' = <<>>]_vars

C3_Witness ==
    /\ isRenderedAsBottomSheet
    /\ reobserved
    /\ fired = 1
    /\ Len(r.permitted) = 0
    /\ out = <<>>

\* C4 (as stated): when the permitted list is empty at mount, the first run
\* of the auto-dismiss effect does nothing.
C4_NoAutoDismissAtMount ==
    [][(AutoDismissStep /\ ~mounted /\ Len(r.permitted) = 0) =>
          (fired' = fired /\ out' = <<>>)]_vars

\* C4 (amended): when the permitted list is empty at mount, the first run of
\* the auto-dismiss effect fires (closes the sheet, shows the disconnect
\* notification once) exactly when rendered as a bottom sheet, and does
\* nothing otherwise.
C4_AutoDismissAtMountIffBottomSheet ==
    [][(AutoDismissStep /\ ~mounted /\ Len(r.permitted) = 0) =>
          IF isRenderedAsBottomSheet
          THEN /\ fired' = 1
               /\ CountOp(out', "showToast") = 1
               /\ CountOp(out', "onCloseBottomSheet") = 1
          ELSE /\ fired' = 0
               /\ out' = <<>>]_vars

C4_Witness ==
    /\ mounted
    /\ previousIdentitiesListSize = Undefined
    /\ "refresh" \in pending
    /\ Len(r.permitted) = 0
    /\ fired = 1
    /\ CountOp(out, "showToast") = 1

\* C5: with no effect pending, every selected address is the address of an
\* account of the current account list.
C5_SelectedAreAccounts ==
    Quiescent =>
        \A i \in DOMAIN selectedAddresses :
            includes(accountsAddressList(internalAccounts),
                     toLowerCase(selectedAddresses[i]))

\* C6: while an account creation is in flight the loading flag is true.
C6_LoadingWhileCreating == creating > 0 => isLoading

\* C7: when addNewAccount rejects, the continuation logs the error and
\* nothing else, clears the loading flag, and leaves the screen, the
\* selection, the permitted accounts, the intent and the scheduled effects as
\* they were, so that later intents are processed as before.
C7_CreateFailureIsContained ==
    [][(settled = "rejected" /\ settled' = "none") =>
          /\ Ops(out') = {"Logger.error"}
          /\ Len(out') = 1
          /\ isLoading' = FALSE
          /\ UNCHANGED <<permissionsScreen, selectedAddresses,
                         permittedAccountsByHostname, userIntent, pending, r>>]_vars

C7_Witness ==
    /\ settled = "none"
    /\ Ops(out) = {"Logger.error"}
    /\ out[1].arg = <<"Error while trying to add a new account.">>
    /\ ~isLoading

\* C8 (as stated): a Confirm makes the effect call addPermittedAccounts once
\* with the selected addresses, show one notification and call hideSheet
\* once, and the loading flag is false afterwards.
C8_ConfirmDoesAllThree ==
    [][Handling("Confirm") =>
          /\ CountOp(out', "addPermittedAccounts") = 1
          /\ \A i \in DOMAIN out' :
                out'[i].op = "addPermittedAccounts" => out'[i].arg = r.selected
          /\ CountOp(out', "showToast") = 1
          /\ CountOp(out', "hideSheet") = 1
          /\ isLoading' = FALSE]_vars

\* C8 (amended): a Confirm makes the effect call addPermittedAccounts once
\* with the selected addresses of the render that scheduled it, and call
\* hideSheet once; the notification is shown once, after the call, when the
\* call returns, and not at all when it throws (the error is then logged
\* once); the loading flag is false afterwards.
C8_ConfirmNotifiesUnlessThrown ==
    [][Handling("Confirm") =>
          /\ CountOp(out', "addPermittedAccounts") = 1
          /\ out'[1] = Call("addPermittedAccounts", r.selected)
          /\ CountOp(out', "showToast") + CountOp(out', "Logger.error") = 1
          /\ CountOp(out', "hideSheet") = 1
          /\ isLoading' = FALSE]_vars

C8_Witness ==
    /\ r.intent = "Confirm"
    /\ userIntent = None
    /\ r.selected # <<>>
    /\ out[1] = Call("addPermittedAccounts", r.selected)
    /\ CountOp(out, "showToast") = 1
    /\ CountOp(out, "hideSheet") = 1
    /\ ~isLoading

\* C9: a Cancel closes the view and persists nothing, rendered as a bottom
\* sheet or not.
C9_CancelDismissesOnly ==
    [][Handling("Cancel") =>
          /\ CountOp(out', "onCloseBottomSheet") = 1
          /\ CountOp(out', "addPermittedAccounts") = 0
          /\ CountOp(out', "showToast") = 0
          /\ UNCHANGED <<permittedAccountsByHostname, selectedAddresses,
                         permissionsScreen>>]_vars

\* C10: the two buckets of a render cover its account list, are disjoint,
\* keep the list's order, and the permitted one holds exactly the accounts
\* whose lower-cased address is in the permitted list.
C10_BucketsPartitionAccounts ==
    LET buckets == accountsFilteredByPermissions(r.accounts, r.permitted)
        P == Range(buckets.permitted)
        U == Range(buckets.unpermitted)
    IN /\ P \cup U = Range(r.accounts)
       /\ P \cap U = {}
       /\ Len(buckets.permitted) + Len(buckets.unpermitted) = Len(r.accounts)
       /\ buckets.permitted = SelectSeq(r.accounts, LAMBDA a : a \in P)
       /\ buckets.unpermitted = SelectSeq(r.accounts, LAMBDA a : a \in U)
       /\ \A a \in Range(r.accounts) :
             a \in P <=> includes(r.permitted, toLowerCase(a))

C10_Witness ==
    LET buckets == accountsFilteredByPermissions(r.accounts, r.permitted)
    IN /\ r.accounts = <<"0xbb", "0xAa">>
       /\ buckets.permitted = <<"0xAa">>
       /\ buckets.unpermitted = <<"0xbb">>

\* C15: the screen starts as the initialScreen the caller passed, Connected
\* when none was passed; a render, an effect run (auto-dismiss, refresh,
\* the processing of any intent), a change of the account list or of the
\* permitted accounts and the settling of an account creation leave it
\* unchanged; the step that changes it is a navigation callback, delivered
\* from the screen on display while nothing else is due, and changes nothing
\* else.
C15_ScreenChangedOnlyByNavigation ==
    /\ initialScreen = NotGiven => permissionsScreen = "Connected"
    /\ initialScreen # NotGiven => permissionsScreen = initialScreen
    /\ [][(\/ dirty /\ ~dirty'
           \/ AutoDismissStep \/ RefreshStep \/ UserIntentStep
           \/ userIntent' # userIntent
           \/ internalAccounts' # internalAccounts
           \/ permittedAccountsByHostname' # permittedAccountsByHostname
           \/ creating' # creating \/ settled' # settled
           \/ selectedAddresses' # selectedAddresses
           \/ out' # <<>>)
          => permissionsScreen' = permissionsScreen]_vars
    /\ [][permissionsScreen' # permissionsScreen =>
              /\ Idle
              /\ dirty'
              /\ UNCHANGED <<route, store, isLoading, selectedAddresses,
                             userIntent, refs, scheduling, promises>>]_vars

C15_Witness ==
    /\ initialScreen = "PermissionsSummary"
    /\ permissionsScreen = "PermissionsSummary"
    /\ mounted
    /\ settled = "none"
    /\ out = <<Call("Logger.error", <<"Error while trying to add a new account.">>)>>

\* C16: a step that changes the screen away from EditAccountsPermissions or
\* ConnectMoreNetworks leads to PermissionsSummary, away from
\* ConnectMoreAccounts to Connected, away from PermissionsSummary to
\* EditAccountsPermissions, to ConnectMoreNetworks or, only when rendered as
\* a bottom sheet, to Connected; each of these moves can be made; when not
\* rendered as a bottom sheet, going back from PermissionsSummary keeps the
\* screen and navigates to 'PermissionsManager'.  None of these steps
\* changes the selected addresses, the intent or the permitted accounts.
BackNavigates == out' = <<Call("navigate", <<"PermissionsManager">>)>>

C16_BackNavigation ==
    /\ [][permissionsScreen' # permissionsScreen =>
              /\ permissionsScreen \in {"EditAccountsPermissions", "ConnectMoreNetworks"}
                    => permissionsScreen' = "PermissionsSummary"
              /\ permissionsScreen = "ConnectMoreAccounts"
                    => permissionsScreen' = "Connected"
              /\ permissionsScreen = "PermissionsSummary"
                    => \/ permissionsScreen' \in {"EditAccountsPermissions",
                                                  "ConnectMoreNetworks"}
                       \/ /\ permissionsScreen' = "Connected"
                          /\ isRenderedAsBottomSheet
              /\ UNCHANGED <<selectedAddresses, userIntent,
                             permittedAccountsByHostname>>]_vars
    /\ [][BackNavigates =>
              /\ ~isRenderedAsBottomSheet
              /\ permissionsScreen = "PermissionsSummary"
              /\ UNCHANGED <<permissionsScreen, selectedAddresses, userIntent,
                             permittedAccountsByHostname, dirty>>]_vars
    /\ [](Idle =>
            /\ permissionsScreen \in {"EditAccountsPermissions", "ConnectMoreNetworks"}
                  => ENABLED (onBack /\ permissionsScreen' = "PermissionsSummary")
            /\ permissionsScreen = "ConnectMoreAccounts"
                  => ENABLED (onBack /\ permissionsScreen' = "Connected")
            /\ permissionsScreen = "PermissionsSummary"
                  => /\ ENABLED (onEdit /\ permissionsScreen' = "EditAccountsPermissions")
                     /\ ENABLED (onEditNetworks
                                    /\ permissionsScreen' = "ConnectMoreNetworks")
                     /\ IF isRenderedAsBottomSheet
                        THEN ENABLED (onBack /\ permissionsScreen' = "Connected")
                        ELSE ENABLED (onBack /\ BackNavigates))

C16_Witness ==
    /\ ~isRenderedAsBottomSheet
    /\ permissionsScreen = "PermissionsSummary"
    /\ out = <<Call("navigate", <<"PermissionsManager">>)>>
    /\ selectedAddresses # <<>>

\* C17: when the processing of a Confirm shows any sign that
\* addPermittedAccounts failed (an error logged, no notification, no
\* analytics event), then the error was logged once, right after the call,
\* no notification and no analytics event were made, the permitted accounts
\* are unchanged, the loading flag ends false, hideSheet is still called
\* once, after the error was logged, and the intent is reset to None.
C17_ConnectFailureIsContained ==
    [][(/\ Handling("Confirm")
        /\ \/ CountOp(out', "Logger.error") > 0
           \/ CountOp(out', "showToast") = 0
           \/ CountOp(out', "trackEvent") = 0)
       => /\ out'[1] = Call("addPermittedAccounts", r.selected)
          /\ out'[2] = Call("Logger.error",
                            <<"Error while trying to connect to a dApp.">>)
          /\ out'[3] = Call("hideSheet", <<>>)
          /\ CountOp(out', "Logger.error") = 1
          /\ CountOp(out', "showToast") = 0
          /\ CountOp(out', "trackEvent") = 0
          /\ CountOp(out', "hideSheet") = 1
          /\ isRenderedAsBottomSheet => out'[4] = Call("onCloseBottomSheet", <<>>)
          /\ CountOp(out', "addPermittedAccounts") = 1
          /\ permittedAccountsByHostname' = permittedAccountsByHostname
          /\ isLoading' = FALSE
          /\ userIntent' = None]_vars

C17_Witness ==
    /\ r.intent = "Confirm"
    /\ "intent" \notin pending
    /\ userIntent = None
    /\ r.selected # <<>>
    /\ out[2].op = "Logger.error"
    /\ CountOp(out, "hideSheet") = 1
    /\ creating > 0
    /\ ~isLoading

\* What is left to do before the renders and the effect runs come to rest,
\* in a number: a continuation due, a snapshot behind the account list, an
\* intent unconsumed, a size not latched, a render due, effects scheduled.
Bit(b) == IF b THEN 1 ELSE 0
Due ==
    64 * Bit(settled # "none")
    + 32 * Bit(r.accounts # internalAccounts)
    + 16 * Bit(userIntent # None)
    + 8 * Bit(previousIdentitiesListSize # Len(r.accounts))
    + 4 * Bit(dirty)
    + Cardinality(pending)

\* C19: a run of the refresh effect that finds the size of the account list
\* equal to the latched size changes nothing and asks for no render; a run
\* that filters latches the size, so the filter runs at most once per
\* change of the size; a run scheduled with no change of the account list
\* since the last run (the one the effect's own set state causes among
\* them) finds the size latched.  Every render, effect run and continuation
\* lessens what is left to do, so between two events only a bounded number
\* of them take place (no endless re-render loop), and they end with
\* nothing due.
C19_RefreshQuiesces ==
    /\ [][RefreshStep =>
              IF previousIdentitiesListSize = Len(r.accounts)
              THEN UNCHANGED <<selectedAddresses, selectedTouched, dirty,
                               previousIdentitiesListSize>>
              ELSE /\ previousIdentitiesListSize' = Len(r.accounts)
                   /\ Len(selectedAddresses') <= Len(r.selected)]_vars
    /\ []((/\ "refresh" \in pending
           /\ ~accountsUpdated
           /\ previousIdentitiesListSize # Undefined)
          => previousIdentitiesListSize = Len(r.accounts))
    /\ [][(\/ dirty /\ ~dirty'
           \/ AutoDismissStep \/ RefreshStep \/ UserIntentStep
           \/ settled # "none")
          => Due' < Due]_vars
    /\ [](Quiescent <=> Due = 0)

C19_Witness ==
    /\ Quiescent
    /\ previousIdentitiesListSize = 2
    /\ Len(internalAccounts) = 2
    /\ selectedAddresses # <<>>
    /\ mounted

\* ------------------------------------------------ InAppBrowserView claims
\* ------------------------------------------------ InAppBrowserView claims
ProbeFulfilled == outcomes \cap {"available", "unavailable"} # {}
OpenBrowserStep == out' # <<>> /\ out'[1].op = "InAppBrowser.open"

\* C11: the Open Browser action is disabled in every state in which no
\* probe's promise has been fulfilled yet; a call of the component function
\* (the mount among them), a URL edit and a rejected probe never enable it.
C11_DisabledUntilProbeFulfilled ==
    /\ [](shouldOpenBrowser => ProbeFulfilled)
    /\ [][(probing' > probing \/ url' # url) =>
              shouldOpenBrowser' = shouldOpenBrowser]_vars
    /\ [][(probing' < probing /\ outcomes' = {"failed"}) =>
              ~shouldOpenBrowser']_vars

C11_Witness ==
    /\ outcomes = {"failed"}
    /\ probesIssued = 2
    /\ url # "https://home.metamask.io/"
    /\ browserPlaceholderText = "Browser not Available"
    /\ ~shouldOpenBrowser

\* C12: the action is enabled only when a probe's outcome was 'available';
\* while every settled probe reported unavailable (fulfilled with false) or
\* failed, the action is disabled and the label shows the not-available text.
C12_EnabledOnlyWhenAvailable ==
    /\ shouldOpenBrowser => "available" \in outcomes
    /\ (outcomes # {} /\ "available" \notin outcomes) =>
            browserPlaceholderText = "Browser not Available"

\* C13 (as stated): every press of the enabled action opens the fixed URL
\* 'https://home.metamask.io/' with the fixed options bag.
C13_OpensFixedUrl ==
    [][OpenBrowserStep =>
          /\ Len(out') = 1
          /\ Head(out'[1].arg) = "https://home.metamask.io/"
          /\ Tail(out'[1].arg) = opts]_vars

\* C13 (amended): every press of the enabled action makes one call of
\* InAppBrowser.open, with the text the URL field holds at the press and
\* with the fixed options bag.
C13_OpensCurrentUrl ==
    [][OpenBrowserStep =>
          /\ shouldOpenBrowser
          /\ Len(out') = 1
          /\ Head(out'[1].arg) = url
          /\ Tail(out'[1].arg) = opts
          /\ UNCHANGED <<url, shouldOpenBrowser, browserPlaceholderText>>]_vars

C13_Witness ==
    /\ out # <<>>
    /\ out[1].op = "InAppBrowser.open"
    /\ Head(out[1].arg) = "https://metamask.io/"
    /\ Len(out[1].arg) = 23

\* C14: isAvailable() is called once, at mount, and never again.
C14_ProbeIssuedOnce == probesIssued <= 1

\* C18: the action is enabled exactly when the label reads 'Browser
\* available', and a label that has read 'Browser available' never turns to
\* 'Browser not Available' with the action still enabled.
C18_LabelAndActionAgree ==
    /\ [](shouldOpenBrowser <=> browserPlaceholderText = "Browser available")
    /\ [][browserPlaceholderText = "Browser available" =>
              ~(/\ browserPlaceholderText' = "Browser not Available"
                /\ shouldOpenBrowser')]_vars

====
